---- MODULE Spec2Model ----
(***************************************************************************)
(* prom-tg-alerts: the polling loop `action` of cmd/prom-tg-alerts/main.go  *)
(* and the alert-state functions it drives (SortedAlerts, Groupped,         *)
(* alertToString, Messages, StateHash, sendTelegram).                       *)
(*                                                                          *)
(* A Go string is modelled as the sequence of its bytes, so that len(),     *)
(* concatenation, strings.Split, strings.Join and the < of strings are      *)
(* computed as Go computes them.  A labels.Labels value is a sequence of    *)
(* [Name, Value] pairs; a labels.Labels that may be nil is the record       *)
(* [nil, ls].  A time.Time is [sec, loc]: the instant and the *Location     *)
(* pointer ("UTC" is the nil pointer Go keeps for UTC).                     *)
(***************************************************************************)
EXTENDS Integers, Sequences, FiniteSets, TLC

VARIABLES
    groupBy,        \* *groupBy: the label to group by, fixed at start
    prevState,      \* action's prevState
    state,          \* action's state: the alert state fetched this cycle
    pc,             \* where the loop stands: "fetch", "send", "panic"
    pending,        \* the entries of state.Messages() not yet ranged over
    attempts,       \* the calls of sendTelegram made in this cycle, in order
    prevAllFailed,  \* the previous cycle sent something and every send failed
    lastFetched,    \* the state fetched in the previous cycle
    cycle,          \* the number of completed cycles
    in,             \* the alert state(s) a method of alertState is applied to
    out             \* what the method returns

vars == <<groupBy, prevState, state, pc, pending, attempts, prevAllFailed,
          lastFetched, cycle, in, out>>

---------------------------------------------------------------------------
\* Bounds of the model.

MaxCycles == 3
MaxAlerts == 2
MaxRows == 3

---------------------------------------------------------------------------
\* String literals of the source, as bytes.

strError == <<38, 101, 114, 114, 111, 114, 61>>          \* "&error="
strAmp == <<38>>                                         \* "&"
strErrorPrefix == <<69, 82, 82, 79, 82, 58, 32>>         \* "ERROR: "
strNoAlerts == <<78, 79, 32, 65, 76, 69, 82, 84, 83>>    \* "NO ALERTS"
strBullet == <<226, 128, 162, 32, 42>>                   \* "• *" (• is 3 bytes)
strStar == <<42>>                                        \* "*"
strNewline == <<10>>                                     \* "\n"
strEllipsis == <<46, 46, 46>>                            \* "..."
strSummary == <<115, 117, 109, 109, 97, 114, 121>>       \* "summary"
strDescription == <<100, 101, 115, 99, 114, 105, 112, 116, 105, 111, 110>>
strInstance == <<105, 110, 115, 116, 97, 110, 99, 101>>  \* "instance"
strJob == <<106, 111, 98>>                               \* "job"
strTooLong == "message too long"
strTransport == "transport error"
NoError == "nil"
Colon == <<58>>                                          \* ":"

msgSizeLimit == 3500
tgSizeLimit == 3600

---------------------------------------------------------------------------
\* Go's string operations.

\* a < b on Go strings: bytewise lexicographic.
RECURSIVE StrLess(_, _)
StrLess(a, b) ==
    IF a = <<>> THEN b # <<>>
    ELSE IF b = <<>> THEN FALSE
    ELSE IF a[1] # b[1] THEN a[1] < b[1]
    ELSE StrLess(Tail(a), Tail(b))

\* strings.Join(rows, sep)
RECURSIVE Join(_, _)
Join(rows, sep) ==
    IF rows = <<>> THEN <<>>
    ELSE IF Len(rows) = 1 THEN rows[1]
    ELSE rows[1] \o sep \o Join(Tail(rows), sep)

\* strings.Repeat of one byte: the texts of a given length.
Rep(c, n) == [i \in 1..n |-> c]

EmptyMap == [k \in {} |-> <<>>]

\* out[key] = value on a Go map.
MapSet(m, key, value) ==
    [k \in DOMAIN m \cup {key} |-> IF k = key THEN value ELSE m[k]]

\* delete(m, key)
MapDelete(m, key) == [k \in DOMAIN m \ {key} |-> m[k]]

---------------------------------------------------------------------------
\* internal/labels: Labels.String and Labels.Get.

LabelString(l) == l.Name \o <<61, 34>> \o l.Value \o <<34>>

\* {name="value",name="value"}: the pairs in their stored order.
LabelsString(ls) ==
    <<123>> \o Join([i \in DOMAIN ls |-> LabelString(ls[i])], <<44>>) \o <<125>>

\* The value of the first pair named `name`; "" when there is none.
RECURSIVE LabelsGet(_, _)
LabelsGet(ls, name) ==
    IF ls = <<>> THEN <<>>
    ELSE IF Head(ls).Name = name THEN Head(ls).Value
    ELSE LabelsGet(Tail(ls), name)

---------------------------------------------------------------------------
\* time.Time: t == u compares the struct (instant and Location pointer),
\* t.Before(u) compares the instants.

TimeEq(t, u) == t.sec = u.sec /\ t.loc = u.loc

TimeBefore(t, u) == t.sec < u.sec

---------------------------------------------------------------------------
\* alertState

\* An initial state that is not the empty one.
NewInitialStateStale == [Alerts |-> <<>>, Error |-> <<120>>]

NewInitialState == [Alerts |-> <<>>, Error |-> <<>>]

\* The less function handed to sort.SliceStable.
Less(x, y) ==
    IF TimeEq(x.StartsAt, y.StartsAt)
    THEN StrLess(LabelsString(x.Labels), LabelsString(y.Labels))
    ELSE TimeBefore(x.StartsAt, y.StartsAt)

Swap(a, i, j) == [a EXCEPT ![i] = a[j], ![j] = a[i]]

\* sort.SliceStable on fewer than 20 elements is one insertion sort:
\* for i := 1; i < n; i++ { for j := i; j > 0 && less(j, j-1); j-- { swap } }
RECURSIVE SiftDown(_, _)
SiftDown(a, j) ==
    IF j > 1 /\ Less(a[j], a[j - 1])
    THEN SiftDown(Swap(a, j, j - 1), j - 1)
    ELSE a

RECURSIVE InsertionSort(_, _)
InsertionSort(a, i) ==
    IF i > Len(a) THEN a ELSE InsertionSort(SiftDown(a, i), i + 1)

\* The slice SortedAlerts returns, which is s.Alerts sorted in place.
SortedAlerts(s) == InsertionSort(s.Alerts, 2)

\* A niceGroup that keeps the value as it is.
niceGroupVerbatim(input) == input

\* parts[0] of strings.Split(input, ":") when there is a ":", else input.
niceGroup(input) ==
    IF \E i \in DOMAIN input : input[i] = Colon[1]
    THEN LET first == CHOOSE i \in DOMAIN input :
                          /\ input[i] = Colon[1]
                          /\ \A j \in 1..(i - 1) : input[j] # Colon[1]
         IN  SubSeq(input, 1, first - 1)
    ELSE input

\* out[group] = append(out[group], a)
GroupAppend(m, group, a) ==
    MapSet(m, group, IF group \in DOMAIN m THEN Append(m[group], a) ELSE <<a>>)

\* The inner loop of Groupped: every label pair of alert a.
RECURSIVE GroupLabels(_, _, _, _)
GroupLabels(m, a, ls, gb) ==
    IF ls = <<>> THEN m
    ELSE GroupLabels(IF Head(ls).Name = gb
                     THEN GroupAppend(m, niceGroup(Head(ls).Value), a)
                     ELSE m,
                     a, Tail(ls), gb)

\* The outer loop of Groupped: every alert, in sorted order.
RECURSIVE GroupAlerts(_, _, _)
GroupAlerts(m, as, gb) ==
    IF as = <<>> THEN m
    ELSE GroupAlerts(GroupLabels(m, Head(as), Head(as).Labels, gb), Tail(as), gb)

Groupped(s, gb) == GroupAlerts(EmptyMap, SortedAlerts(s), gb)

alertToString(src) ==
    LET summary == LabelsGet(src.Annotations.ls, strSummary)
        description == LabelsGet(src.Annotations.ls, strDescription)
        out1 == IF ~src.Annotations.nil /\ Len(summary) > 0
                THEN <<strBullet \o summary \o strStar>> ELSE <<>>
        out2 == IF ~src.Annotations.nil /\ Len(description) > 0
                THEN Append(out1, description) ELSE out1
        out3 == IF ~src.Annotations.nil /\ Len(out2) = 0
                THEN <<LabelsString(src.Annotations.ls)>> ELSE out2
        out4 == IF Len(out3) = 0 THEN <<LabelsString(src.Labels)>> ELSE out3
    IN  Join(out4, strNewline)

\* The comparison with <= in the place of <.
AcceptsAtCap(msgSize) == msgSize <= msgSizeLimit

\* if msgSize < msgSizeLimit: the next alert of the group is rendered.
Accepts(msgSize) == msgSize < msgSizeLimit

\* The rows of one group: the inner loop of Messages.
RECURSIVE Rows(_, _, _)
Rows(group, msgSize, rows) ==
    IF group = <<>> THEN rows
    ELSE IF Accepts(msgSize)
         THEN LET alert == alertToString(Head(group))
              IN  Rows(Tail(group), msgSize + Len(alert) + 2, Append(rows, alert))
         ELSE Rows(Tail(group), msgSize, rows)

\* if len(out[key]) >= msgSizeLimit { out[key] = out[key] + "..." }
WithEllipsis(body) ==
    IF Len(body) >= msgSizeLimit THEN body \o strEllipsis ELSE body

GroupBody(group) == WithEllipsis(Join(Rows(group, 0, <<>>), strNewline))

Messages(s, gb) ==
    LET groups == Groupped(s, gb)
        out1 == IF s.Error # <<>>
                THEN MapSet(EmptyMap, <<>>, strErrorPrefix \o s.Error)
                ELSE EmptyMap
        out2 == [k \in DOMAIN out1 \cup DOMAIN groups |->
                    IF k \in DOMAIN groups THEN GroupBody(groups[k]) ELSE out1[k]]
    IN  IF DOMAIN out2 = {} THEN MapSet(EmptyMap, <<>>, strNoAlerts) ELSE out2

\* out += "&" + a.Labels.String() for every sorted alert
RECURSIVE HashAlerts(_)
HashAlerts(as) ==
    IF as = <<>> THEN <<>>
    ELSE strAmp \o LabelsString(Head(as).Labels) \o HashAlerts(Tail(as))

StateHash(s) ==
    (IF Len(s.Error) > 0 THEN strError \o s.Error ELSE <<>>)
        \o HashAlerts(SortedAlerts(s))

\* The error sendTelegram returns; transportOk is whether http.Get and
\* ReadAll succeed.
sendTelegram(body, transportOk) ==
    IF Len(body) > tgSizeLimit THEN strTooLong
    ELSE IF transportOk THEN NoError
    ELSE strTransport

---------------------------------------------------------------------------
\* The alerts and the fetch results the loop is run on.

Label(name, value) == [Name |-> name, Value |-> value]

NilLabels == [nil |-> TRUE, ls |-> <<>>]

SomeLabels(ls) == [nil |-> FALSE, ls |-> ls]

\* The *Location of a time parsed from "...Z": Go keeps nil for UTC.
UTC == "UTC"

Time(sec, loc) == [sec |-> sec, loc |-> loc]

Alert(labels, annotations, startsAt) ==
    [Labels |-> labels, Annotations |-> annotations, StartsAt |-> startsAt]

\* instance="a:1", summary="s"
alertWeb ==
    Alert(<<Label(strInstance, <<97, 58, 49>>)>>,
          SomeLabels(<<Label(strSummary, <<115>>)>>), Time(0, UTC))

\* instance="b", description="d"
alertDb ==
    Alert(<<Label(strInstance, <<98>>)>>,
          SomeLabels(<<Label(strDescription, <<100>>)>>), Time(0, UTC))

\* instance="c", a description of 3601 bytes: a body sendTelegram rejects
alertBig ==
    Alert(<<Label(strInstance, <<99>>)>>,
          SomeLabels(<<Label(strDescription, Rep(120, tgSizeLimit + 1))>>),
          Time(0, UTC))

\* job="j": no grouping label
alertNoGroup ==
    Alert(<<Label(strJob, <<106>>)>>, NilLabels, Time(0, UTC))

FetchAlerts ==
    { <<>>, <<alertWeb>>, <<alertWeb, alertDb>>, <<alertDb, alertWeb>>,
      <<alertDb, alertBig>>, <<alertNoGroup>> }

FetchErrors == { <<120>>, <<121>> }     \* "x", "y"

\* What NewAlertState returns: an error and no alerts, or the alerts of the
\* payload and no error.
NewAlertState ==
    {[Alerts |-> a, Error |-> <<>>] : a \in FetchAlerts}
        \cup {[Alerts |-> <<>>, Error |-> e] : e \in FetchErrors}

---------------------------------------------------------------------------
\* The loop of action.

\* prevState != state: two pointers, never equal.
HashChangedByPointer(prev, cur) == TRUE

\* prevState.StateHash() != state.StateHash()
HashChanged(prev, cur) == StateHash(prev) # StateHash(cur)

\* A range over the messages that a failed send breaks.
RemainingStopOnError(pend, key, err) ==
    IF err = NoError THEN MapDelete(pend, key) ELSE EmptyMap

\* The range over state.Messages() goes on after a send, failed or not.
RemainingAfterSend(pend, key, err) == MapDelete(pend, key)

\* A prevState that is kept when a send failed, so that the state is retried.
NextPrevStateRetry(prev, cur, sent) ==
    IF \E i \in DOMAIN sent : sent[i].err # NoError THEN prev ELSE cur

\* prevState = state
NextPrevState(prev, cur, sent) == cur

AllFailed(sent) == sent # <<>> /\ \A i \in DOMAIN sent : sent[i].err # NoError

Init ==
    /\ groupBy = strInstance
    /\ prevState = NewInitialState
    /\ state = NewInitialState
    /\ pc = "fetch"
    /\ pending = EmptyMap
    /\ attempts = <<>>
    /\ prevAllFailed = FALSE
    /\ lastFetched = NewInitialState
    /\ cycle = 0
    /\ in = <<>>
    /\ out = <<>>

\* state := NewAlertState(url) and the comparison of the two hashes, each of
\* which sorts its state's Alerts in place.
Fetch ==
    /\ pc = "fetch"
    /\ cycle < MaxCycles
    /\ \E fetched \in NewAlertState :
          LET cur == [fetched EXCEPT !.Alerts = SortedAlerts(fetched)]
              prev == [prevState EXCEPT !.Alerts = SortedAlerts(prevState)]
          IN  /\ state' = cur
              /\ prevState' = prev
              /\ pending' = IF HashChanged(prev, cur)
                            THEN Messages(cur, groupBy)
                            ELSE EmptyMap
    /\ prevAllFailed' = AllFailed(attempts)
    /\ lastFetched' = state
    /\ attempts' = <<>>
    /\ pc' = "send"
    /\ UNCHANGED <<groupBy, cycle, in, out>>

\* NewAlertState on a payload that parses, reports no error and has no "data":
\* data.Data is a nil pointer and len(data.Data.Alerts) panics.
FetchPanic ==
    /\ pc = "fetch"
    /\ cycle < MaxCycles
    /\ pc' = "panic"
    /\ UNCHANGED <<groupBy, prevState, state, pending, attempts, prevAllFailed,
                   lastFetched, cycle, in, out>>

\* One iteration of the range over the messages: Go ranges over a map in any
\* order; the send fails locally on a long body, or in transport, or succeeds.
Send ==
    /\ pc = "send"
    /\ \E key \in DOMAIN pending, transportOk \in BOOLEAN :
          LET err == sendTelegram(pending[key], transportOk)
          IN  /\ attempts' = Append(attempts,
                                    [key |-> key, body |-> pending[key], err |-> err])
              /\ pending' = RemainingAfterSend(pending, key, err)
    /\ UNCHANGED <<groupBy, prevState, state, pc, prevAllFailed, lastFetched,
                   cycle, in, out>>

\* prevState = state, and the sleep.
EndCycle ==
    /\ pc = "send"
    /\ DOMAIN pending = {}
    /\ prevState' = NextPrevState(prevState, state, attempts)
    /\ cycle' = cycle + 1
    /\ pc' = "fetch"
    /\ UNCHANGED <<groupBy, state, pending, attempts, prevAllFailed, lastFetched,
                   in, out>>

Next == Fetch \/ FetchPanic \/ Send \/ EndCycle

Spec == Init /\ [][Next]_vars

---------------------------------------------------------------------------
\* Properties of the loop.

NoSend == attempts = <<>> /\ DOMAIN pending = {}

AttemptedKeys == {attempts[i].key : i \in DOMAIN attempts}

\* C1: a cycle that fetches a state whose StateHash equals that of the state
\* fetched in the previous cycle calls sendTelegram zero times, an unchanged
\* fetch error included.
C1_Dedup ==
    (pc = "send" /\ cycle >= 1 /\ StateHash(state) = StateHash(lastFetched))
        => NoSend

\* A second cycle that fetched the error text of the first and sent nothing.
C1_Witness ==
    /\ pc = "send"
    /\ cycle >= 1
    /\ state.Error # <<>>
    /\ state.Error = lastFetched.Error
    /\ NoSend

\* C2 as claimed: the first cycle sends at least one message whatever the
\* first fetch returns.
C2_ColdStartAlways ==
    (pc = "fetch" /\ cycle = 1) => Len(attempts) >= 1

\* C2 as amended: the first cycle sends at least one message exactly when the
\* first fetch returns an error or at least one alert; an empty alert list
\* without error has the hash of the initial state and sends nothing.
C2_ColdStart ==
    (pc = "fetch" /\ cycle = 1)
        => (Len(attempts) >= 1 <=> (state.Error # <<>> \/ state.Alerts # <<>>))

\* The first cycle fetched alerts and has sent.
C2_Witness ==
    /\ pc = "fetch"
    /\ cycle = 1
    /\ state.Alerts # <<>>
    /\ Len(attempts) >= 1

\* C3: in a cycle whose hash changed, every (key, body) of Messages gets
\* exactly one call of sendTelegram whichever sends fail: while the cycle
\* runs, the keys sent and the keys still to send are the keys of Messages,
\* no key is sent twice, and the cycle ends with none left.
C3_EachGroupOnce ==
    (pc \in {"send", "fetch"} /\ StateHash(state) # StateHash(lastFetched))
        => LET msgs == Messages(state, groupBy)
           IN  /\ AttemptedKeys \cup DOMAIN pending = DOMAIN msgs
               /\ AttemptedKeys \cap DOMAIN pending = {}
               /\ Cardinality(AttemptedKeys) = Len(attempts)
               /\ \A i \in DOMAIN attempts :
                      attempts[i].body = msgs[attempts[i].key]
               /\ \A k \in DOMAIN pending : pending[k] = msgs[k]
               /\ pc = "fetch" => DOMAIN pending = {}

\* A finished cycle of two groups: the first send was rejected as too long,
\* the second failed in transport, and the loop is at its next fetch.
C3_Witness ==
    /\ pc = "fetch"
    /\ cycle >= 1
    /\ Len(attempts) = 2
    /\ attempts[1].err = strTooLong
    /\ attempts[2].err = strTransport

\* C4: a cycle ends with prevState the state it fetched, failed sends or not;
\* so a cycle after one whose sends all failed, fetching the same hash, sends
\* nothing.
C4_NoRetry ==
    /\ (pc = "fetch" /\ cycle >= 1) => prevState = state
    /\ (pc = "send" /\ prevAllFailed
            /\ StateHash(state) = StateHash(lastFetched)) => NoSend

\* Every send of the previous cycle failed, and this cycle fetched the same
\* alerts and sends nothing.
C4_Witness ==
    /\ pc = "send"
    /\ prevAllFailed
    /\ state.Alerts # <<>>
    /\ StateHash(state) = StateHash(lastFetched)
    /\ prevState = lastFetched
    /\ NoSend

---------------------------------------------------------------------------
\* The functions of alertState on alert states of every shape: the two fields
\* of the struct are independent, and a label set may repeat a name.

strFoo == <<102, 111, 111>>                              \* "foo"

lsWeb == <<Label(strInstance, <<97, 58, 49>>)>>          \* instance="a:1"

\* instance="a:1",instance="b:2"
lsTwo == <<Label(strInstance, <<97, 58, 49>>), Label(strInstance, <<98, 58, 50>>)>>

\* job="a",instance="b"
lsJob == <<Label(strJob, <<97>>), Label(strInstance, <<98>>)>>

\* instance="a:2",instance="a"
lsTwice == <<Label(strInstance, <<97, 58, 50>>), Label(strInstance, <<97>>)>>

\* instance=":x"
lsColon == <<Label(strInstance, <<58, 120>>)>>

annSummary == <<Label(strSummary, <<88>>)>>              \* summary="X"

annDescription == <<Label(strDescription, <<89>>)>>      \* description="Y"

annBoth == <<Label(strSummary, <<88>>), Label(strDescription, <<89>>)>>

annFoo == <<Label(strFoo, <<98, 97, 114>>)>>             \* foo="bar"

annFooSummary == <<Label(strFoo, <<98, 97, 114>>), Label(strSummary, <<88>>)>>

FnAlerts ==
    { Alert(lsWeb, NilLabels, Time(0, UTC)),
      Alert(lsTwo, SomeLabels(<<>>), Time(0, UTC)),
      Alert(lsJob, SomeLabels(annSummary), Time(1, UTC)),
      Alert(<<>>, SomeLabels(annDescription), Time(0, UTC)),
      Alert(lsTwice, SomeLabels(annBoth), Time(0, UTC)),
      Alert(lsColon, SomeLabels(annFoo), Time(1, UTC)),
      Alert(lsWeb, SomeLabels(annFooSummary), Time(1, UTC)),
      Alert(lsJob, NilLabels, Time(0, UTC)) }

SeqsUpTo(S, n) == UNION {[1..k -> S] : k \in 0..n}

FnErrors == { <<>>, <<98, 111, 111, 109>> }              \* "", "boom"

FnStates ==
    {[Alerts |-> a, Error |-> e] : a \in SeqsUpTo(FnAlerts, MaxAlerts), e \in FnErrors}

GroupByNames == { strInstance, strJob }

InitFn ==
    /\ groupBy \in GroupByNames
    /\ in \in FnStates
    /\ out = <<>>
    /\ pc = "input"
    /\ prevState = NewInitialState
    /\ state = NewInitialState
    /\ lastFetched = NewInitialState
    /\ pending = EmptyMap
    /\ attempts = <<>>
    /\ prevAllFailed = FALSE
    /\ cycle = 0

\* The methods of alertState, and alertToString on each sorted alert.
ApplyFn ==
    /\ pc = "input"
    /\ out' = [Sorted |-> SortedAlerts(in),
               Groupped |-> Groupped(in, groupBy),
               Texts |-> [i \in DOMAIN in.Alerts |-> alertToString(SortedAlerts(in)[i])],
               Messages |-> Messages(in, groupBy)]
    /\ pc' = "applied"
    /\ UNCHANGED <<groupBy, in, prevState, state, lastFetched, pending, attempts,
                   prevAllFailed, cycle>>

NextFn == ApplyFn

SpecFn == InitFn /\ [][NextFn]_vars

\* C5: Messages of a state with an error is exactly the one entry
\* "" -> "ERROR: " + error, whatever alerts the state holds.
C5_ErrorOnly ==
    (pc = "applied" /\ in.Error # <<>>)
        => out.Messages = MapSet(EmptyMap, <<>>, strErrorPrefix \o in.Error)

\* The longest prefix of a label value that holds no ":".
CutAtColon(v) ==
    LET n == CHOOSE n \in 0..Len(v) :
                 /\ \A j \in 1..n : v[j] # 58
                 /\ n < Len(v) => v[n + 1] = 58
    IN  SubSeq(v, 1, n)

\* How many pairs of alert a are named name and cut to key.
PairCount(a, name, key) ==
    Cardinality({i \in DOMAIN a.Labels :
                    a.Labels[i].Name = name /\ CutAtColon(a.Labels[i].Value) = key})

\* Each alert of `sorted`, in order, PairCount times.
RECURSIVE Repeated(_, _, _)
Repeated(sorted, name, key) ==
    IF sorted = <<>> THEN <<>>
    ELSE [i \in 1..PairCount(Head(sorted), name, key) |-> Head(sorted)]
            \o Repeated(Tail(sorted), name, key)

\* C8: Groupped holds an alert under key k once for each of its pairs named
\* groupBy whose value, cut at the first ":", is k, in sorted order; the keys
\* are those with at least one such pair.
C8_Grouping ==
    pc = "applied"
        => /\ DOMAIN out.Groupped =
                  UNION {{CutAtColon(in.Alerts[n].Labels[j].Value) :
                             j \in {i \in DOMAIN in.Alerts[n].Labels :
                                       in.Alerts[n].Labels[i].Name = groupBy}} :
                         n \in DOMAIN in.Alerts}
           /\ \A k \in DOMAIN out.Groupped :
                  out.Groupped[k] = Repeated(out.Sorted, groupBy, k)

\* An alert with instance="a:1" and instance="b:2" is under "a" and under "b",
\* beside an alert without the grouping label, which is under no key.
C8_Witness ==
    /\ pc = "applied"
    /\ groupBy = strInstance
    /\ Len(in.Alerts) = 2
    /\ in.Alerts[1].Labels = <<>>
    /\ in.Alerts[2].Labels = lsTwo
    /\ DOMAIN out.Groupped = {<<97>>, <<98>>}
    /\ out.Groupped[<<97>>] = <<in.Alerts[2]>>
    /\ out.Groupped[<<98>>] = <<in.Alerts[2]>>

HasPair(ls, name) == \E i \in DOMAIN ls : ls[i].Name = name

\* The text C10 gives an alert: one of three forms.
TextForm(a) ==
    LET ann == a.Annotations.ls
        bullet == IF HasPair(ann, strSummary)
                  THEN <<strBullet \o LabelsGet(ann, strSummary) \o strStar>>
                  ELSE <<>>
        descr == IF HasPair(ann, strDescription)
                 THEN <<LabelsGet(ann, strDescription)>>
                 ELSE <<>>
    IN  IF HasPair(ann, strSummary) \/ HasPair(ann, strDescription)
        THEN Join(bullet \o descr, strNewline)
        ELSE IF ann # <<>> THEN LabelsString(ann)
        ELSE LabelsString(a.Labels)

\* C10: the text of an alert is the summary bullet and/or the description,
\* else the annotation string when it has other annotations, else (no
\* annotations: absent, or an empty set) the label string.
C10_ThreeForms ==
    pc = "applied"
        => \A i \in DOMAIN out.Texts : out.Texts[i] = TextForm(out.Sorted[i])

---------------------------------------------------------------------------
\* StateHash on pairs of alert states.  The payload sets the label names as
\* it sets the values and the error text, and a startsAt with a zone offset
\* parses to a Time whose Location is not the nil pointer of UTC.

lsA == <<Label(<<97>>, <<49>>)>>                         \* a="1"

lsB == <<Label(<<98>>, <<50>>)>>                         \* b="2"

\* The one pair whose name is  a="1"}&{b  and whose value is  2
lsAB == <<Label(<<97, 61, 34, 49, 34, 125, 38, 123, 98>>, <<50>>)>>

\* The *Location of a time parsed from an offset such as "...+01:00".
Zone == "+01:00"

HashAlertPool ==
    {Alert(ls, NilLabels, t) :
        ls \in {lsA, lsB},
        t \in {Time(0, UTC), Time(0, Zone), Time(1, UTC)}}
        \cup {Alert(lsAB, NilLabels, Time(0, UTC))}

\* "", "x" and  x&{a="1"}
HashErrors == { <<>>, <<120>>, <<120, 38, 123, 97, 61, 34, 49, 34, 125>> }

HashStates ==
    {[Alerts |-> a, Error |-> e] :
        a \in SeqsUpTo(HashAlertPool, MaxAlerts), e \in HashErrors}

InitHash ==
    /\ groupBy = strInstance
    /\ in \in [a : HashStates, b : HashStates]
    /\ out = <<>>
    /\ pc = "input"
    /\ prevState = NewInitialState
    /\ state = NewInitialState
    /\ lastFetched = NewInitialState
    /\ pending = EmptyMap
    /\ attempts = <<>>
    /\ prevAllFailed = FALSE
    /\ cycle = 0

ApplyHash ==
    /\ pc = "input"
    /\ out' = [a |-> StateHash(in.a), b |-> StateHash(in.b)]
    /\ pc' = "applied"
    /\ UNCHANGED <<groupBy, in, prevState, state, lastFetched, pending, attempts,
                   prevAllFailed, cycle>>

NextHash == ApplyHash

SpecHash == InitHash /\ [][NextHash]_vars

\* How many alerts of s have the label set ls.
LabelsCount(s, ls) == Cardinality({i \in DOMAIN s.Alerts : s.Alerts[i].Labels = ls})

\* What the hash covers: the error text and the multiset of label sets.
SameCovered(s, t) ==
    /\ s.Error = t.Error
    /\ \A ls \in {lsA, lsB, lsAB} : LabelsCount(s, ls) = LabelsCount(t, ls)

\* C6: two states that differ in error text, in the multiset of their alerts
\* or in the labels of an alert have different hashes.
C6_Injective ==
    (pc = "applied" /\ ~SameCovered(in.a, in.b)) => out.a # out.b

IsPermutation(a, b) ==
    /\ Len(a) = Len(b)
    /\ \E p \in Permutations(1..Len(a)) : \A i \in 1..Len(a) : b[i] = a[p[i]]

\* C7: the hash of a state does not depend on the order of its alert list.
C7_OrderIndependent ==
    (pc = "applied" /\ in.a.Error = in.b.Error
         /\ IsPermutation(in.a.Alerts, in.b.Alerts)) => out.a = out.b

---------------------------------------------------------------------------
\* Messages on one group of long texts.

RenderLens == { 1, 1748, 3497, 3500 }

\* The i-th alert of the group: instance="a", a description of n bytes
\* (of 'a' + i), started at second i.
RenderAlert(i, n) ==
    Alert(<<Label(strInstance, <<97>>)>>,
          SomeLabels(<<Label(strDescription, Rep(97 + i, n))>>), Time(i, UTC))

RenderStates ==
    {[Alerts |-> [i \in DOMAIN lens |-> RenderAlert(i, lens[i])], Error |-> <<>>] :
        lens \in SeqsUpTo(RenderLens, MaxRows)}

InitRender ==
    /\ groupBy = strInstance
    /\ in \in RenderStates
    /\ out = <<>>
    /\ pc = "input"
    /\ prevState = NewInitialState
    /\ state = NewInitialState
    /\ lastFetched = NewInitialState
    /\ pending = EmptyMap
    /\ attempts = <<>>
    /\ prevAllFailed = FALSE
    /\ cycle = 0

ApplyRender ==
    /\ pc = "input"
    /\ out' = Messages(in, groupBy)
    /\ pc' = "applied"
    /\ UNCHANGED <<groupBy, in, prevState, state, lastFetched, pending, attempts,
                   prevAllFailed, cycle>>

NextRender == ApplyRender

SpecRender == InitRender /\ [][NextRender]_vars

\* The texts of the alerts of the group, in order.
GroupTexts == [i \in DOMAIN in.Alerts |-> alertToString(SortedAlerts(in)[i])]

\* The running size after the first j texts.
RECURSIVE RunningSize(_, _)
RunningSize(texts, j) ==
    IF j = 0 THEN 0 ELSE RunningSize(texts, j - 1) + Len(texts[j]) + 2

Crosses(texts) == \E j \in DOMAIN texts : RunningSize(texts, j) >= msgSizeLimit

\* N + 1: the first alert that brings the running size to the cap or over.
Crossing(texts) ==
    CHOOSE j \in DOMAIN texts :
        /\ RunningSize(texts, j) >= msgSizeLimit
        /\ \A i \in 1..(j - 1) : RunningSize(texts, i) < msgSizeLimit

Kept(texts) ==
    IF Crosses(texts)
    THEN Join(SubSeq(texts, 1, Crossing(texts)), strNewline)
    ELSE Join(texts, strNewline)

\* C9 as claimed: the body is the alerts up to the one that crosses the cap,
\* followed by "..."; a group that never reaches the cap has no "...".
C9_EllipsisOnCrossing ==
    (pc = "applied" /\ in.Alerts # <<>>)
        => out[<<97>>] = IF Crosses(GroupTexts)
                         THEN Kept(GroupTexts) \o strEllipsis
                         ELSE Kept(GroupTexts)

\* C9 as amended: the body is the alerts up to the one that crosses the cap,
\* followed by "..." exactly when those alerts joined by newlines are 3500
\* bytes or more (the running size counts 2 per alert, the join 1 per
\* separator); a group that never reaches the cap has no "...".
C9_SizeCap ==
    (pc = "applied" /\ in.Alerts # <<>>)
        => out[<<97>>] = IF Crosses(GroupTexts)
                                /\ Len(Kept(GroupTexts)) >= msgSizeLimit
                         THEN Kept(GroupTexts) \o strEllipsis
                         ELSE Kept(GroupTexts)

\* Texts of 1748, 3497 and 1 bytes: the second crosses the cap, the body is
\* the first two and "...", and the third is dropped.
C9_Witness ==
    /\ pc = "applied"
    /\ Len(in.Alerts) = 3
    /\ Len(GroupTexts[1]) = 1748
    /\ Len(GroupTexts[2]) = 3497
    /\ Len(GroupTexts[3]) = 1
    /\ out[<<97>>] = GroupTexts[1] \o strNewline \o GroupTexts[2] \o strEllipsis

====
